---- MODULE Spec2Model ----
(***************************************************************************)
(* A model of src/app.py, the Streamlit chat application.                  *)
(*                                                                         *)
(* Texts are finite sequences of tokens.  Every token is a piece of real   *)
(* text, and a text is the concatenation of its tokens.  The tokens are    *)
(* chosen so that the markers of the code occur in a text exactly where    *)
(* they occur in its token sequence:                                       *)
(*   "<thinking>"  is the token pair  "<" , "thinking>"                    *)
(*   "</thinking>", "<tool_code>" and "</tool_code>" are single tokens.    *)
(* The character "<" starts a token and occurs nowhere else, so no marker  *)
(* can straddle tokens in any other way.  " " is the only whitespace       *)
(* token; the letters "q", "w", "z", "Q" do not occur in any marker nor    *)
(* in the placeholder text of get_chat_response.                           *)
(***************************************************************************)
EXTENDS Integers, Sequences, FiniteSets, TLC

\* ------------------------------------------------------------ bounds
\* longest raw completion the splitter is run on (SplitSpec)
MaxLen == 6

\* ------------------------------------------------------------ texts
ThinkOpen == <<"<", "thinking>">>
ThinkClose == <<"</thinking>">>
ToolOpen == <<"<tool_code>">>
ToolClose == <<"</tool_code>">>

\* the text get_chat_response reports when it finds no reasoning block
Placeholder == <<"Reasoning process not explicitly provided">>

\* Python's None where a text is expected (process_message's thinking)
None == <<"None">>

IsSpace(t) == t = " "

\* str.strip(): drop the leading and the trailing whitespace
RECURSIVE LStrip(_)
LStrip(s) == IF s # <<>> /\ IsSpace(Head(s)) THEN LStrip(Tail(s)) ELSE s

RECURSIVE RStrip(_)
RStrip(s) ==
    IF s # <<>> /\ IsSpace(s[Len(s)]) THEN RStrip(SubSeq(s, 1, Len(s) - 1)) ELSE s

Strip(s) == RStrip(LStrip(s))

\* the marker m occurs in s at position i
IsAt(s, i, m) == i >= 1 /\ i + Len(m) - 1 <= Len(s) /\ SubSeq(s, i, i + Len(m) - 1) = m

\* first position >= from where m occurs in s, 0 when there is none
FindFrom(s, m, from) ==
    LET hits == {i \in from..Len(s) : IsAt(s, i, m)}
    IN  IF hits = {} THEN 0 ELSE CHOOSE i \in hits : \A j \in hits : i <= j

\* "m in s"
Contains(s, m) == FindFrom(s, m, 1) # 0

\* ReSearch with the close marker looked for from the start of the text
ReSearch_CloseAnywhere(s, open, close) ==
    LET o == FindFrom(s, open, 1)
        c == IF o = 0 THEN 0 ELSE FindFrom(s, close, 1)
    IN  IF o = 0 \/ c = 0
        THEN [found |-> FALSE, start |-> 0, inner |-> <<>>, end |-> 0]
        ELSE [found |-> TRUE, start |-> o,
              inner |-> SubSeq(s, o + Len(open), c - 1),
              end |-> c + Len(close) - 1]

\* re.search(open(.*?)close, s, re.DOTALL): the leftmost open marker that
\* has a close marker after it, and the nearest such close marker.
\* [found, start, inner, end]: s[start..end] is the match, inner is group(1).
ReSearch(s, open, close) ==
    LET o == FindFrom(s, open, 1)
        c == IF o = 0 THEN 0 ELSE FindFrom(s, close, o + Len(open))
    IN  IF o = 0 \/ c = 0
        THEN [found |-> FALSE, start |-> 0, inner |-> <<>>, end |-> 0]
        ELSE [found |-> TRUE, start |-> o,
              inner |-> SubSeq(s, o + Len(open), c - 1),
              end |-> c + Len(close) - 1]

\* re.sub(open.*?close, '', s, flags=re.DOTALL): every non-overlapping match,
\* found left to right, is removed; the scan goes on after each match.
RECURSIVE ReSubEmpty(_, _, _)
ReSubEmpty(s, open, close) ==
    LET m == ReSearch(s, open, close)
    IN  IF ~m.found THEN s
        ELSE SubSeq(s, 1, m.start - 1)
             \o ReSubEmpty(SubSeq(s, m.end + 1, Len(s)), open, close)

\* ------------------------------------------------------------ tool calls
\* json.loads on the text of a tool block.  Two JSON documents are modelled:
\* "[]" (no call) and "[call]" (a non-empty list of calls); any other text of
\* the model's tokens is not JSON and raises JSONDecodeError.
JsonTokens == {"[]", "[call]"}

JsonValid(s) == Len(s) = 1 /\ s[1] \in JsonTokens

\* bool(tool_calls)
Truthy(tool_calls) == tool_calls = "[call]"

\* lines 236-245: the tool call detection; [tool_calls, full_response]
ToolPass(full_response) ==
    LET m == ReSearch(full_response, ToolOpen, ToolClose)
    IN  IF Contains(full_response, ToolOpen) /\ Contains(full_response, ToolClose)
           /\ m.found /\ JsonValid(Strip(m.inner))
        THEN [tool_calls |-> Strip(m.inner)[1],
              full_response |-> Strip(ReSubEmpty(full_response, ToolOpen, ToolClose))]
        ELSE [tool_calls |-> "[]", full_response |-> full_response]

\* ------------------------------------------------------------ the splitter
\* SplitThinking without the strip() of the reasoning
SplitThinking_NoStrip(full_response) ==
    LET thinking_match == ReSearch(full_response, ThinkOpen, ThinkClose)
    IN  IF thinking_match.found
        THEN [thinking |-> thinking_match.inner,
              main_response |-> Strip(ReSubEmpty(full_response, ThinkOpen, ThinkClose))]
        ELSE [thinking |-> Placeholder, main_response |-> full_response]

\* lines 247-254: split thinking and response
SplitThinking(full_response) ==
    LET thinking_match == ReSearch(full_response, ThinkOpen, ThinkClose)
    IN  IF thinking_match.found
        THEN [thinking |-> Strip(thinking_match.inner),
              main_response |-> Strip(ReSubEmpty(full_response, ThinkOpen, ThinkClose))]
        ELSE [thinking |-> Placeholder, main_response |-> full_response]

\* lines 233-256: what get_chat_response returns for the completion text
ParseCompletion(completion) ==
    LET t == ToolPass(completion)
        s == SplitThinking(t.full_response)
    IN  [thinking |-> s.thinking, main_response |-> s.main_response,
         tool_calls |-> t.tool_calls]

\* ------------------------------------------------------------ session bounds
\* most turns a conversation holds (the chat input is refused beyond it)
MaxTurns == 3
\* message actions carry an index in -MaxIdx..MaxIdx
MaxIdx == 1
\* reactions counted in the whole conversation
MaxReactions == 1

\* ------------------------------------------------------------ inputs
\* what the user types into the chat input
Prompts == {<<"Q">>}
\* what the user types into the search box ("" is no search)
SearchQueries == {<<>>, <<"Q">>}
\* what the user types into the System Prompt area ("" clears it)
DefaultSystemPrompt == <<"You MUST structure EVERY response with thinking and final answer sections.">>
SystemPrompts == {<<>>, DefaultSystemPrompt}
\* what the user types into the edit area
EditTexts == {<<"z">>}
\* the prompt of a favorite action
FavoritePrompts == {<<"Q">>}
\* the completions the model returns: a plain answer, an answer with a
\* reasoning block, a reasoning block alone, an answer with a tool call
Completions ==
    { <<"w">>,
      <<"<", "thinking>", "q", "</thinking>", "w">>,
      <<"<", "thinking>", "q", "</thinking>">>,
      <<"<tool_code>", "[call]", "</tool_code>", "w">> }
\* how client.invoke_model fails: a throttling error, or any other error
\* (bad credentials, validation error, invalid model identifier)
TransportErrors == {"ThrottlingException", "AccessDeniedException"}

\* ------------------------------------------------------------ python values
\* str.lower() on a token, on a text
LowerToken(t) == IF t = "Q" THEN "q" ELSE t
Lower(s) == [i \in 1..Len(s) |-> LowerToken(s[i])]

\* str.capitalize() on a role
Capitalize(role) ==
    IF role = "user" THEN "User" ELSE IF role = "assistant" THEN "Assistant" ELSE role

\* the position (from 1) that list[i] names in a list of n items, 0 when it
\* raises IndexError: a negative i counts from the end
PyIndex(n, i) ==
    IF 0 <= i /\ i < n THEN i + 1
    ELSE IF i < 0 /\ -n <= i THEN n + i + 1
    ELSE 0

\* list[:i]
PyPrefix(list, i) ==
    LET n == Len(list)
        k == IF i >= 0 THEN (IF i < n THEN i ELSE n) ELSE (IF n + i > 0 THEN n + i ELSE 0)
    IN  SubSeq(list, 1, k)

\* del list[p] for a position p (from 1)
RemoveAt(list, p) == SubSeq(list, 1, p - 1) \o SubSeq(list, p + 1, Len(list))

\* lines 209-217 (the timestamp is left out: nothing reads it)
process_message(message, role, thinking, tool_calls) ==
    [role |-> role, content |-> message,
     reactions |-> [likes |-> 0, dislikes |-> 0],
     thinking |-> thinking, tool_calls |-> tool_calls]

\* ------------------------------------------------------------ state
\* a run of the splitter: the completion, what get_chat_response makes of
\* it, and what it makes of the visible text of that
VARIABLES raw, first, second

splitVars == <<raw, first, second>>

VARIABLES
    messages,          \* current_chat["messages"]
    system_prompt,     \* current_chat["system_prompt"]
    search_query,      \* st.session_state.search_query
    editing_message,   \* st.session_state.editing_message: <<>> is None, <<i>> is i
    message_action,    \* st.session_state.message_action
    favorite_prompts,  \* st.session_state.favorite_prompts
    edit_area,         \* the display loop of the last run drew the edit area (lines 383-397)
    retried_from,      \* current_chat["messages"] as the retry being made found it (line 462)
    pc,                \* "idle", or "invoking": the script run is inside get_chat_response
    caller,            \* who called get_chat_response: "chat" or "retry"
    payload,           \* the turn blocks of the prompt of the request being made
    attempts,          \* the errors client.invoke_model raised for the request, in order
    outcome,           \* of the request of this script run: "none", "pending", "ok", "error"
    raised             \* the exception that ended this script run, "none" when none did

sessionVars == <<messages, system_prompt, search_query, editing_message, message_action,
                 favorite_prompts, edit_area, retried_from, pc, caller, payload, attempts, outcome, raised>>

vars == <<sessionVars, splitVars>>

\* st.session_state.message_action = None
NoAction == [action |-> "None", messageIdx |-> 0, reaction |-> "", prompt |-> <<>>]

\* the session as one value
Cur ==
    [messages |-> messages, system_prompt |-> system_prompt,
     search_query |-> search_query, editing_message |-> editing_message,
     message_action |-> message_action, favorite_prompts |-> favorite_prompts,
     edit_area |-> edit_area, retried_from |-> retried_from,
     pc |-> pc, caller |-> caller, payload |-> payload, attempts |-> attempts,
     outcome |-> outcome, raised |-> raised]

Becomes(s) ==
    /\ messages' = s.messages
    /\ system_prompt' = s.system_prompt
    /\ search_query' = s.search_query
    /\ editing_message' = s.editing_message
    /\ message_action' = s.message_action
    /\ favorite_prompts' = s.favorite_prompts
    /\ edit_area' = s.edit_area
    /\ retried_from' = s.retried_from
    /\ pc' = s.pc
    /\ caller' = s.caller
    /\ payload' = s.payload
    /\ attempts' = s.attempts
    /\ outcome' = s.outcome
    /\ raised' = s.raised
    /\ UNCHANGED <<raw, first, second>>

\* lines 158-181: the session state of a new session
SessionInit ==
    /\ messages = <<>>
    /\ system_prompt = DefaultSystemPrompt
    /\ search_query = <<>>
    /\ editing_message = <<>>
    /\ message_action = NoAction
    /\ favorite_prompts = <<>>
    /\ edit_area = FALSE
    /\ retried_from = <<>>
    /\ pc = "idle"
    /\ caller = "none"
    /\ payload = <<>>
    /\ attempts = <<>>
    /\ outcome = "none"
    /\ raised = "none"

\* ------------------------------------------------------------ display
\* line 373
search_term(q) == Lower(q)

\* lines 374-378 raise AttributeError: msg.get("thinking", "") is None for a
\* message made without thinking, None has no lower(), and Python evaluates
\* that operand when the content does not match
FilterRaises(msgs, q) ==
    /\ q # <<>>
    /\ \E i \in 1..Len(msgs) :
          /\ ~Contains(Lower(msgs[i].content), search_term(q))
          /\ msgs[i].thinking = None

\* lines 371-378: messages_to_display, as the positions (from 1) in msgs of
\* the messages it holds
messages_to_display(msgs, q) ==
    LET Shown(i) ==
            \/ q = <<>>
            \/ Contains(Lower(msgs[i].content), search_term(q))
            \/ msgs[i].thinking # None /\ Contains(Lower(msgs[i].thinking), search_term(q))
    IN  SelectSeq([i \in 1..Len(msgs) |-> i], Shown)

\* line 382: the edit area, with Save and Cancel, is drawn for some message
EditAreaShown(s) ==
    LET shown == messages_to_display(s.messages, s.search_query)
    IN  /\ s.editing_message # <<>>
        /\ s.editing_message[1] \in 0..(Len(shown) - 1)
        /\ s.messages[shown[s.editing_message[1] + 1]].role = "user"

\* ------------------------------------------------------------ the request
\* line 226: the turn blocks of the prompt, one "\n\nRole: content" for every
\* message of conversation_history, then "\n\nHuman: prompt"
BuildPayload(conversation_history, prompt) ==
    [i \in 1..Len(conversation_history) |->
        [role |-> Capitalize(conversation_history[i].role),
         text |-> conversation_history[i].content]]
    \o <<[role |-> "Human", text |-> prompt]>>

\* StopAfterAttempt giving up one attempt late
StopAfterAttempt_Late(attempt_number) == attempt_number > 3

\* line 186: stop_after_attempt(3), asked after the attempt_number-th failure
StopAfterAttempt(attempt_number) == attempt_number >= 3

\* line 186: no retry= argument, so tenacity retries on every Exception;
\* lines 190-194 re-raise every error, throttling or not
RetryOn(error) == TRUE

\* lines 219-231: get_chat_response is entered and calls the transport
StartRequest(s, who, prompt) ==
    [s EXCEPT !.pc = "invoking", !.caller = who,
              !.payload = BuildPayload(s.messages, prompt),
              !.attempts = <<>>, !.outcome = "pending"]

\* a script run starts: whatever run was in progress is gone
NewRun(s) ==
    [s EXCEPT !.pc = "idle", !.caller = "none", !.payload = <<>>,
              !.attempts = <<>>, !.outcome = "none", !.raised = "none",
              !.retried_from = <<>>]

\* bool(main_response), bool(last_user_message)
TextTruthy(t) == t # None /\ t # <<>>

\* lines 463-466
RECURSIVE LastUserMessage(_)
LastUserMessage(msgs) ==
    IF msgs = <<>> THEN None
    ELSE IF msgs[Len(msgs)].role = "user" THEN msgs[Len(msgs)].content
    ELSE LastUserMessage(SubSeq(msgs, 1, Len(msgs) - 1))

\* ------------------------------------------------------------ the script
\* lines 370-451: the display of a run.  The filter raises before the loop
\* draws anything; otherwise the loop draws the edit area or the buttons
Display(s) ==
    IF FilterRaises(s.messages, s.search_query)
    THEN [s EXCEPT !.raised = "AttributeError", !.edit_area = FALSE]
    ELSE [s EXCEPT !.edit_area = EditAreaShown(s)]

\* the run that st.rerun() at line 499 starts: no action is pending and no
\* widget fired, so only the display can do anything
RunAfterAction(s) == Display(s)

\* lines 498-499
ActionDone(s) == RunAfterAction([s EXCEPT !.message_action = NoAction])

\* lines 454-499: the pending message action is handled
HandleAction(s) ==
    LET action == s.message_action
        n == Len(s.messages)
        p == PyIndex(n, action.messageIdx)
    IN  CASE action.action = "edit" ->
                ActionDone([s EXCEPT !.editing_message = <<action.messageIdx>>])
          [] action.action = "delete" ->
                IF p = 0 THEN [s EXCEPT !.raised = "IndexError"]
                ELSE ActionDone([s EXCEPT !.messages = RemoveAt(@, p)])
          [] action.action = "retry" ->
                LET messages_before == PyPrefix(s.messages, action.messageIdx)
                    last_user_message == LastUserMessage(messages_before)
                IN  IF TextTruthy(last_user_message)
                    THEN StartRequest([s EXCEPT !.messages = messages_before,
                                                !.retried_from = s.messages],
                                      "retry", last_user_message)
                    ELSE ActionDone(s)
          [] action.action = "react" ->
                IF p = 0 THEN [s EXCEPT !.raised = "IndexError"]
                ELSE IF action.reaction = "like"
                THEN ActionDone([s EXCEPT !.messages[p].reactions.likes = @ + 1])
                ELSE IF action.reaction = "dislike"
                THEN ActionDone([s EXCEPT !.messages[p].reactions.dislikes = @ + 1])
                ELSE [s EXCEPT !.raised = "KeyError"]
          [] action.action = "favorite" ->
                IF \E i \in 1..Len(s.favorite_prompts) : s.favorite_prompts[i] = action.prompt
                THEN ActionDone(s)
                ELSE ActionDone([s EXCEPT !.favorite_prompts = Append(@, action.prompt)])
          [] OTHER -> ActionDone(s)

\* lines 370-527, from the display down, of a run in which the chat input
\* returned prompt ("" when it returned nothing)
ScriptBody(s, prompt) ==
    LET shown == Display(s)
    IN  IF shown.raised # "none"
        THEN shown
        ELSE IF shown.message_action # NoAction
        THEN HandleAction(shown)
        ELSE IF prompt # <<>>
        THEN StartRequest(
                [shown EXCEPT !.messages =
                    Append(@, process_message(prompt, "user", None, "None"))],
                "chat", prompt)
        ELSE shown

\* what get_chat_response returns when the request fails (line 260)
Failed == [thinking |-> None, main_response |-> None, tool_calls |-> "None"]

\* the rest of the handler that called get_chat_response, which returned r
\* (its locals are gone; only a failed request keeps its attempts, in the
\* RetryError it reported):
\* lines 529-564 of the chat input, lines 477-499 of the retry action.
\* A reply with tool calls raises TypeError after the assistant message is
\* appended: process_message takes no tool_name argument (lines 486, 564).
AfterResponse(s, r) ==
    LET idle == [s EXCEPT !.pc = "idle", !.caller = "none", !.payload = <<>>,
                          !.retried_from = <<>>]
        appended == [idle EXCEPT !.messages =
                        Append(@, process_message(r.main_response, "assistant",
                                                  r.thinking, r.tool_calls))]
    IN  IF s.caller = "chat"
        THEN IF TextTruthy(r.main_response)
             THEN IF Truthy(r.tool_calls)
                  THEN [appended EXCEPT !.raised = "TypeError"]
                  ELSE appended
             ELSE idle
        ELSE IF TextTruthy(r.main_response)
             THEN IF Truthy(r.tool_calls)
                  THEN [appended EXCEPT !.raised = "TypeError"]
                  ELSE ActionDone(appended)
             ELSE ActionDone(idle)

\* ------------------------------------------------------------ events
TotalReactions(msgs) ==
    LET RECURSIVE Sum(_)
        Sum(k) == IF k = 0 THEN 0
                  ELSE msgs[k].reactions.likes + msgs[k].reactions.dislikes + Sum(k - 1)
    IN  Sum(Len(msgs))

\* line 368: the search box changes
Search(q) ==
    /\ q # search_query
    /\ Becomes(ScriptBody([NewRun(Cur) EXCEPT !.search_query = q], <<>>))

\* lines 332-335: the System Prompt area changes
SetSystemPrompt(text) ==
    /\ text # system_prompt
    /\ Becomes(ScriptBody([NewRun(Cur) EXCEPT !.system_prompt = text], <<>>))

\* lines 359-362: Clear Chat, then the rerun
ClearChat ==
    /\ messages # <<>>
    /\ Becomes(ScriptBody([NewRun(Cur) EXCEPT !.messages = <<>>], <<>>))

\* lines 390-393: Save in the edit area, then the rerun.  The button is
\* pressed on the page of the last run, and returns True in the run the
\* press starts, whose display loop draws it again from the messages of now
SaveEdit(edited_message) ==
    /\ edit_area
    /\ ~FilterRaises(messages, search_query)
    /\ EditAreaShown(Cur)
    /\ LET idx == editing_message[1]
       IN  Becomes(ScriptBody([NewRun(Cur) EXCEPT
                                  !.messages[idx + 1].content = edited_message,
                                  !.editing_message = <<>>], <<>>))

\* lines 395-397: Cancel in the edit area, then the rerun
CancelEdit ==
    /\ edit_area
    /\ ~FilterRaises(messages, search_query)
    /\ EditAreaShown(Cur)
    /\ Becomes(ScriptBody([NewRun(Cur) EXCEPT !.editing_message = <<>>], <<>>))

\* lines 134-154: a button of a displayed message sets message_action, and
\* the script runs.  The buttons are drawn by the display loop (lines
\* 399-433), which the page has only when the filter raised nothing.
MessageAction(action) ==
    /\ ~FilterRaises(messages, search_query)
    /\ action.action = "react" => TotalReactions(messages) < MaxReactions
    /\ Becomes(ScriptBody([NewRun(Cur) EXCEPT !.message_action = action], <<>>))

\* line 502 draws the chat input: the page has it when the last run got
\* there, or is still on its way (the page of the run before stays)
ChatInputShown ==
    /\ ~FilterRaises(messages, search_query)
    /\ message_action = NoAction \/ pc = "invoking"

\* lines 502-527: the chat input returns a prompt
SendMessage(prompt) ==
    /\ ChatInputShown
    /\ Len(messages) + 2 <= MaxTurns
    /\ Becomes(ScriptBody(NewRun(Cur), prompt))

\* lines 189, 233-256: client.invoke_model returns the completion
TransportReturn(completion) ==
    /\ pc = "invoking"
    /\ Becomes(AfterResponse([Cur EXCEPT !.outcome = "ok", !.attempts = <<>>],
                              ParseCompletion(completion)))

\* lines 186-194, 258-260: client.invoke_model raises; tenacity calls again
\* or gives up with RetryError, which get_chat_response catches
TransportRaise(error) ==
    /\ pc = "invoking"
    /\ LET s == [Cur EXCEPT !.attempts = Append(@, error)]
       IN  IF RetryOn(error) /\ ~StopAfterAttempt(Len(s.attempts))
           THEN Becomes(s)
           ELSE Becomes(AfterResponse([s EXCEPT !.outcome = "error"], Failed))

Reactions == {"like", "dislike"}

MessageActions ==
    [action : {"edit", "delete", "retry"}, messageIdx : -MaxIdx..MaxIdx,
     reaction : {""}, prompt : {<<>>}]
    \cup [action : {"react"}, messageIdx : -MaxIdx..MaxIdx,
          reaction : Reactions, prompt : {<<>>}]
    \cup [action : {"favorite"}, messageIdx : {0}, reaction : {""},
          prompt : FavoritePrompts]

\* ------------------------------------------------------------ splitter runs

SplitTokens == {"<", "thinking>", "</thinking>", " ", "q"}

\* every text of at most MaxLen tokens
Texts == UNION {[1..n -> SplitTokens] : n \in 0..MaxLen}

NotRun == [thinking |-> None, main_response |-> None, tool_calls |-> "[]"]

\* completions with a tool block: an empty list of calls, a call, a block
\* that is not JSON, a tool block before a reasoning block
ToolTexts ==
    { <<"<tool_code>", "[]", "</tool_code>", "q">>,
      <<"<tool_code>", " ", "[call]", "</tool_code>", " ", "q">>,
      <<"<tool_code>", "q", "</tool_code>", "q">>,
      <<" ", "<tool_code>", "[]", "</tool_code>", "<", "thinking>", "q", "</thinking>", "q">> }

SplitInit ==
    /\ SessionInit
    /\ raw \in Texts \cup ToolTexts
    /\ first = NotRun
    /\ second = NotRun

\* get_chat_response's post-processing applied to the raw completion
RunSplit ==
    /\ first = NotRun
    /\ first' = ParseCompletion(raw)
    /\ UNCHANGED <<raw, second, sessionVars>>

\* the same post-processing applied to the visible text of the first run
RunSplitAgain ==
    /\ first # NotRun /\ second = NotRun
    /\ second' = ParseCompletion(first.main_response)
    /\ UNCHANGED <<raw, first, sessionVars>>

SplitNext == RunSplit \/ RunSplitAgain

SplitSpec == SplitInit /\ [][SplitNext]_vars

\* ------------------------------------------------------------ the session
Next ==
    \/ \E q \in SearchQueries : Search(q)
    \/ \E text \in SystemPrompts : SetSystemPrompt(text)
    \/ ClearChat
    \/ \E text \in EditTexts : SaveEdit(text)
    \/ CancelEdit
    \/ \E action \in MessageActions : MessageAction(action)
    \/ \E prompt \in Prompts : SendMessage(prompt)
    \/ \E completion \in Completions : TransportReturn(completion)
    \/ \E error \in TransportErrors : TransportRaise(error)

Init == SessionInit /\ raw = <<>> /\ first = NotRun /\ second = NotRun

Spec == Init /\ [][Next]_vars

\* the session of a user who only sends messages, deletes turns, retries
\* replies and clears the chat: every way a request to the model is made,
\* abandoned and ended
RequestActions == {action \in MessageActions : action.action \in {"retry", "delete"}}

RequestNext ==
    \/ ClearChat
    \/ \E action \in RequestActions : MessageAction(action)
    \/ \E prompt \in Prompts : SendMessage(prompt)
    \/ \E completion \in Completions : TransportReturn(completion)
    \/ \E error \in TransportErrors : TransportRaise(error)

RequestSpec == Init /\ [][RequestNext]_vars

\* ------------------------------------------------------------ the splitter's claims
\* no marker occurs in s, of a reasoning block or of a tool block
NoMarker(s) ==
    /\ ~Contains(s, ThinkOpen) /\ ~Contains(s, ThinkClose)
    /\ ~Contains(s, ToolOpen) /\ ~Contains(s, ToolClose)

\* s holds a complete delimiter pair: an open marker and a close marker after it
HasPair(s) ==
    \E i \in 1..Len(s), j \in 1..Len(s) :
        IsAt(s, i, ThinkOpen) /\ j >= i + Len(ThinkOpen) /\ IsAt(s, j, ThinkClose)

\* C2: a completion A<thinking>B</thinking>C, with no marker in A, B and C,
\* is split into the reasoning B, trimmed, and the visible text AC, trimmed.
C2_SplitterExtraction ==
    first # NotRun =>
        \A i \in 1..Len(raw), j \in 1..Len(raw) :
            LET A == SubSeq(raw, 1, i - 1)
                B == SubSeq(raw, i + Len(ThinkOpen), j - 1)
                C == SubSeq(raw, j + Len(ThinkClose), Len(raw))
            IN  ( /\ IsAt(raw, i, ThinkOpen) /\ IsAt(raw, j, ThinkClose)
                  /\ j >= i + Len(ThinkOpen)
                  /\ NoMarker(A) /\ NoMarker(B) /\ NoMarker(C) )
                => /\ first.thinking = Strip(B)
                   /\ first.main_response = Strip(A \o C)

\* "A<thinking> B</thinking>C" has been split into "AC" and "B"
C2_Witness ==
    /\ raw = <<"q", "<", "thinking>", "q", "</thinking>", "q">>
    /\ first.main_response = <<"q", "q">>
    /\ first.thinking = <<"q">>

C4_ResplitLeavesVisible ==
    second # NotRun =>
        /\ second.main_response = first.main_response
        /\ ~HasPair(first.main_response)

\* ------------------------------------------------------------ the session's claims
\* C1: when the model returns a completion for a sent message, exactly one
\* assistant turn is appended directly after the new user turn, with the
\* visible text and the reasoning the completion is split into.
C1_ReplyFolded ==
    [][ \A completion \in Completions :
          (caller = "chat" /\ TransportReturn(completion)) =>
              LET r == ParseCompletion(completion)
              IN  /\ messages[Len(messages)].role = "user"
                  /\ Len(messages') = Len(messages) + 1
                  /\ SubSeq(messages', 1, Len(messages)) = messages
                  /\ messages'[Len(messages')].role = "assistant"
                  /\ messages'[Len(messages')].content = r.main_response
                  /\ messages'[Len(messages')].thinking = r.thinking ]_vars

\* C5: a request whose every call fails is called 3 times and then reported
\* as failed; no request is called more than 3 times, and after the third
\* failure the request is no longer outstanding.
C5_RetryBudget ==
    /\ Len(attempts) <= 3
    /\ outcome = "error" => Len(attempts) = 3
    /\ Len(attempts) = 3 => (outcome = "error" /\ pc = "idle")

\* three throttling errors in a row have been reported as a failed request
C5_Witness ==
    /\ outcome = "error"
    /\ attempts = <<"ThrottlingException", "ThrottlingException", "ThrottlingException">>

\* the errors the invoker can classify as transient
Transient(error) == error = "ThrottlingException"

\* C6: an error that is not transient ends the request: it is the only
\* call of the request, and the request is reported as failed.
C6_PermanentNotRetried ==
    \A i \in 1..Len(attempts) :
        ~Transient(attempts[i]) => (i = 1 /\ Len(attempts) = 1 /\ outcome = "error")

\* the turn blocks the claim expects: the system prompt when there is one,
\* then every stored turn once, in order, under its role
ExpectedPayload ==
    (IF system_prompt # <<>>
     THEN <<[role |-> "User", text |-> system_prompt]>>
     ELSE <<>>)
    \o [i \in 1..Len(messages) |->
           [role |-> Capitalize(messages[i].role), text |-> messages[i].content]]

\* C7: the payload of a request is the system-prompt block, when the system
\* prompt is not empty, and then every stored turn exactly once and in order.
C7_PayloadIsTurns == pc = "invoking" => payload = ExpectedPayload

\* the turn shown in the edit area: the position in messages of the
\* displayed message whose index is editing_message
SelectedTurn ==
    messages_to_display(messages, search_query)[editing_message[1] + 1]

\* C8: Save replaces the text of the turn shown in the edit area and
\* nothing else (no message action is pending).
C8_SaveEditsSelected ==
    [][ \A text \in EditTexts :
          (SaveEdit(text) /\ message_action = NoAction) =>
              messages' = [messages EXCEPT ![SelectedTurn].content = text] ]_vars

DeleteAction(i) ==
    [action |-> "delete", messageIdx |-> i, reaction |-> "", prompt |-> <<>>]

\* C9: a delete action with an index in [0, len) removes that turn and keeps
\* the others in order; with any other index it raises IndexError and the
\* turns stay as they are.
C9_DeleteInRange ==
    [][ \A i \in -MaxIdx..MaxIdx :
          MessageAction(DeleteAction(i)) =>
              IF 0 <= i /\ i < Len(messages)
              THEN messages' = RemoveAt(messages, i + 1)
              ELSE raised' = "IndexError" /\ messages' = messages ]_vars

\* C10: while a request is outstanding no other request starts: a step that
\* leaves a request outstanding is a failed call of that request.
C10_OneInvocation ==
    [][ (pc = "invoking" /\ pc' = "invoking") =>
          \E error \in TransportErrors : TransportRaise(error) ]_vars

RetryAction(i) ==
    [action |-> "retry", messageIdx |-> i, reaction |-> "", prompt |-> <<>>]

\* C11: a retry action on the turn at index i, with a user turn among the
\* turns before it, cuts the turns back to 0..i-1 and calls the model, and a
\* reply without tool calls then adds exactly one assistant turn to them;
\* with no user turn before index i it changes no turn and calls nothing.
C11_RetryTruncates ==
    [][ /\ \A i \in 0..MaxIdx :
              (i < Len(messages) /\ MessageAction(RetryAction(i))) =>
                  IF \E k \in 1..i : messages[k].role = "user"
                  THEN messages' = SubSeq(messages, 1, i) /\ pc' = "invoking"
                  ELSE messages' = messages /\ pc' = "idle"
        /\ \A completion \in Completions :
              ( /\ caller = "retry"
                /\ ~Truthy(ParseCompletion(completion).tool_calls)
                /\ TransportReturn(completion) ) =>
                  /\ Len(messages') = Len(messages) + 1
                  /\ SubSeq(messages', 1, Len(messages)) = messages
                  /\ messages'[Len(messages')].role = "assistant" ]_vars

\* C12: a pending message action is handled once: when the script run that
\* handled it has ended, however it ended, message_action is None again, so
\* no later run finds the same action pending.
C12_ActionHandledOnce == pc = "idle" => message_action = NoAction

\* C13: when the request of a retry action fails, the turns are the ones
\* the retry action found: the retried turn and the turns after it are kept.
C13_FailedRetryKeepsTurns ==
    [][ \A error \in TransportErrors :
          (caller = "retry" /\ TransportRaise(error) /\ pc' = "idle") =>
              messages' = retried_from ]_vars
====
